---- MODULE Spec2Model ----
(***************************************************************************)
(* Model of the query store (QueryStore.reduce and its helpers) and of the *)
(* routing client (route, createRequest, decodeResult, decodePath) of      *)
(* graphhopper-maps.                                                       *)
(*                                                                         *)
(* Sequences are 1-based here and 0-based in the source: position i of a   *)
(* sequence is index i - 1 of the source's array.                          *)
(***************************************************************************)
EXTENDS Integers, Sequences, FiniteSets, TLC

VARIABLES
    state,      \* the QueryStoreState held by the store
    posted,     \* the request bodies POSTed while the last action was dispatched
    requests,   \* one record per call of route(), in call order: where the call stands
    received,   \* the calls whose RouteReceived was dispatched, in dispatch order
    error,      \* the exception the last dispatch ended with, "" when reduce returned
    last,       \* the type of the action dispatched last
    rawPath,    \* the path of the route response that is being decoded
    decoder,    \* the running call of decodePath: its arguments, locals and place
    path        \* the path decodeResult made of rawPath

vars == <<state, posted, requests, received, error, last, rawPath, decoder, path>>

decodeVars == <<rawPath, decoder, path>>

----------------------------------------------------------------------------
(* Bounds *)

\* nextId never grows beyond MaxId: AddPoint is disabled from there on.
MaxId == 3

\* route() is called at most MaxRequests times.
MaxRequests == 2

\* atIndex of AddPoint ranges over -1 .. MaxIndex.
MaxIndex == 3

\* The encoded geometries have every length up to MaxLen.
MaxLen == 4

----------------------------------------------------------------------------
(* Values *)

QueryPointType == {"From", "To", "Via"}

ghKey == "fb45b8b2-fdda-4093-ac1a-8b57b4e50add"

\* The value of an array read past its end (vehicles[0] of an empty list).
undefined == [undefined |-> TRUE]

Vehicle(key) ==
    [key |-> key, version |-> "1", import_date |-> "d", features |-> [elevation |-> FALSE]]

Coords == { [lat |-> 0, lng |-> 0], [lat |-> 1, lng |-> 2], [lat |-> -1, lng |-> 3] }

Messages == {"Bad Request", "Too Many Requests"}

\* The vehicle of a property of the info response, or no vehicle when the
\* features do not name the property.
vehiclesOf(property, features) ==
    IF property.name \in DOMAIN features
    THEN <<[features |-> features[property.name],
            version |-> property.value.version,
            import_date |-> property.value.import_date,
            key |-> property.name]>>
    ELSE <<>>

\* The loop of convertToApiInfo over the properties, in their order.
RECURSIVE vehiclesIn(_, _)
vehiclesIn(response, features) ==
    IF response = <<>> THEN <<>>
    ELSE vehiclesOf(Head(response), features) \o vehiclesIn(Tail(response), features)

\* The value of the last property of the name, or the given default.
RECURSIVE propertyOr(_, _, _)
propertyOr(response, name, default) ==
    IF response = <<>> THEN default
    ELSE IF response[Len(response)].name = name THEN response[Len(response)].value
    ELSE propertyOr(SubSeq(response, 1, Len(response) - 1), name, default)

\* convertToApiInfo of a response, the sequence of its properties (name and
\* value) in the order of the JSON document.
convertToApiInfo(response) ==
    LET features == propertyOr(response, "features", <<>>)
    IN  [vehicles |-> vehiclesIn(response, features),
         bbox |-> propertyOr(response, "bbox", <<0, 0, 0, 0>>),
         version |-> propertyOr(response, "version", ""),
         import_date |-> propertyOr(response, "import_date", "")]

\* The response of /info of a server with the given profiles.
InfoResponse(profiles) ==
    <<[name |-> "bbox", value |-> <<-180, -90, 180, 90>>]>>
    \o [i \in 1..Len(profiles) |->
          [name |-> profiles[i], value |-> [version |-> "1", import_date |-> "d"]]]
    \o <<[name |-> "version", value |-> "1"],
         [name |-> "features",
          value |-> [key \in { profiles[i] : i \in 1..Len(profiles) } |->
                       [elevation |-> FALSE]]]>>

\* The profiles of the servers: none, one, and two in either order.
ProfileLists ==
    { <<>>, <<"bike">>, <<"car", "bike">>, <<"bike", "car">>, <<"bike", "foot">> }

\* The lists of vehicles an InfoReceived may carry.
VehicleLists ==
    { convertToApiInfo(InfoResponse(profiles)).vehicles : profiles \in ProfileLists }

\* Number to string conversion of the `+` operator on a number and a string.
NumToString(n) ==
    IF n < 0 THEN "-" \o ToString(-n) ELSE ToString(n)

Min(a, b) == IF a < b THEN a ELSE b

Max(a, b) == IF a > b THEN a ELSE b

----------------------------------------------------------------------------
(* QueryStore *)

getMarkerColor(type) ==
    CASE type = "From" -> "#417900"
      [] type = "To" -> "#F97777"
      [] OTHER -> "#76D0F7"

\* index is the 0-based index of the source.
getPointType(index, numberOfPoints) ==
    IF index = 0 THEN "From"
    ELSE IF index = numberOfPoints - 1 THEN "To"
    ELSE "Via"

\* routeIfAllPointsSet with the coordinates mapped to <<lat, lng>>.
routeIfAllPointsSetLatLng(st) ==
    IF Len(st.queryPoints) > 1
       /\ \A i \in 1..Len(st.queryPoints) : st.queryPoints[i].isInitialized
    THEN IF st.routingVehicle = undefined
         THEN [routed |-> <<>>, threw |-> TRUE]
         ELSE [routed |->
                 << [points |-> [i \in 1..Len(st.queryPoints) |->
                                   << st.queryPoints[i].coordinate.lat,
                                      st.queryPoints[i].coordinate.lng >>],
                     key |-> ghKey,
                     points_encoded |-> FALSE,
                     vehicle |-> st.routingVehicle.key] >>,
               threw |-> FALSE]
    ELSE [routed |-> <<>>, threw |-> FALSE]

\* The outcome of routeIfAllPointsSet: the arguments of the calls of route()
\* it made, and whether reading routingVehicle.key threw a TypeError.
routeIfAllPointsSet(st) ==
    IF Len(st.queryPoints) > 1
       /\ \A i \in 1..Len(st.queryPoints) : st.queryPoints[i].isInitialized
    THEN IF st.routingVehicle = undefined
         THEN [routed |-> <<>>, threw |-> TRUE]
         ELSE [routed |->
                 << [points |-> [i \in 1..Len(st.queryPoints) |->
                                   << st.queryPoints[i].coordinate.lng,
                                      st.queryPoints[i].coordinate.lat >>],
                     key |-> ghKey,
                     points_encoded |-> FALSE,
                     vehicle |-> st.routingVehicle.key] >>,
               threw |-> FALSE]
    ELSE [routed |-> <<>>, threw |-> FALSE]

getEmptyPoint(id, type) ==
    [isInitialized |-> FALSE,
     queryText |-> "",
     coordinate |-> [lng |-> 0, lat |-> 0],
     id |-> id,
     color |-> getMarkerColor(type),
     type |-> type]

getInitialState ==
    [queryPoints |-> << getEmptyPoint(0, "From"), getEmptyPoint(1, "To") >>,
     nextId |-> 2,
     routingVehicle |->
        [key |-> "", import_date |-> "", version |-> "", features |-> [elevation |-> FALSE]]]

replace(points, newPoint) ==
    [i \in 1..Len(points) |->
        IF points[i].id = newPoint.id THEN newPoint ELSE points[i]]

\* Array.prototype.splice(start, 0, item): the position (0-based) the item
\* is inserted at.
spliceStart(start, len) ==
    IF start < 0 THEN Max(len + start, 0) ELSE Min(start, len)

splice(arr, start, item) ==
    LET k == spliceStart(start, Len(arr))
    IN  SubSeq(arr, 1, k) \o <<item>> \o SubSeq(arr, k + 1, Len(arr))

\* Array.prototype.filter(point => point.id !== id)
RECURSIVE filterId(_, _)
filterId(points, id) ==
    IF points = <<>> THEN <<>>
    ELSE IF Head(points).id # id
         THEN <<Head(points)>> \o filterId(Tail(points), id)
         ELSE filterId(Tail(points), id)

\* Array.prototype.find(vehicle => vehicle.key === 'car')
RECURSIVE findCar(_)
findCar(vehicles) ==
    IF vehicles = <<>> THEN undefined
    ELSE IF Head(vehicles).key = "car" THEN Head(vehicles)
    ELSE findCar(Tail(vehicles))

\* What a reduce returns: the new state, the calls of route() made on the
\* way, and whether it threw instead of returning.
Returned(newState, outcome) ==
    [state |-> newState, routed |-> outcome.routed, threw |-> outcome.threw]

NoRoute == [routed |-> <<>>, threw |-> FALSE]

reduceSetPoint(st, action) ==
    LET newState == [st EXCEPT !.queryPoints = replace(st.queryPoints, action.point)]
    IN  Returned(newState, routeIfAllPointsSet(newState))

reduceInvalidatePoint(st, action) ==
    LET points == replace(st.queryPoints, [action.point EXCEPT !.isInitialized = FALSE])
    IN  Returned([st EXCEPT !.queryPoints = points], NoRoute)

\* ClearPoints giving the cleared waypoints new ids.
reduceClearPointsRenumbering(st, action) ==
    LET newPoints == [i \in 1..Len(st.queryPoints) |->
                        [st.queryPoints[i] EXCEPT !.queryText = "",
                                                  !.isInitialized = FALSE,
                                                  !.id = st.nextId + i - 1]]
    IN  [state |-> [st EXCEPT !.queryPoints = newPoints,
                              !.nextId = st.nextId + Len(st.queryPoints)],
         routed |-> <<>>, threw |-> FALSE]

\* ClearPoints writing the zero coordinate to the field `coordinate`.
reduceClearPointsZeroing(st, action) ==
    LET newPoints == [i \in 1..Len(st.queryPoints) |->
                        [st.queryPoints[i] EXCEPT !.queryText = "",
                                                  !.coordinate = [lat |-> 0, lng |-> 0],
                                                  !.isInitialized = FALSE]]
    IN  [state |-> [st EXCEPT !.queryPoints = newPoints],
         routed |-> <<>>, threw |-> FALSE]

\* The written field `point` is no field of QueryPoint: nothing reads it,
\* and the coordinate is left as it is.
reduceClearPoints(st, action) ==
    LET newPoints == [i \in 1..Len(st.queryPoints) |->
                        [st.queryPoints[i] EXCEPT !.queryText = "",
                                                  !.isInitialized = FALSE]]
    IN  Returned([st EXCEPT !.queryPoints = newPoints], NoRoute)

\* coordinate.lng + ', ' + coordinate.lat
coordinateText(coordinate) ==
    NumToString(coordinate.lng) \o ", " \o NumToString(coordinate.lat)

reduceAddPoint(st, action) ==
    LET queryText == IF action.isInitialized THEN coordinateText(action.coordinate) ELSE ""
        tmp == splice(st.queryPoints, action.atIndex,
                      [coordinate |-> action.coordinate,
                       id |-> st.nextId,
                       queryText |-> queryText,
                       color |-> "",
                       isInitialized |-> action.isInitialized,
                       type |-> "Via"])
        newPoints == [i \in 1..Len(tmp) |->
                        LET type == getPointType(i - 1, Len(tmp))
                        IN  [tmp[i] EXCEPT !.color = getMarkerColor(type), !.type = type]]
        newState == [st EXCEPT !.nextId = st.nextId + 1, !.queryPoints = newPoints]
    IN  Returned(newState, routeIfAllPointsSet(newState))

reduceRemovePoint(st, action) ==
    LET filtered == filterId(st.queryPoints, action.point.id)
        newPoints == [i \in 1..Len(filtered) |->
                        LET type == getPointType(i - 1, Len(st.queryPoints) - 1)
                        IN  [filtered[i] EXCEPT !.color = getMarkerColor(type), !.type = type]]
        newState == [st EXCEPT !.queryPoints = newPoints]
    IN  Returned(newState, routeIfAllPointsSet(newState))

\* InfoReceived evaluating the route trigger like SetVehicle does.
reduceInfoReceivedRouting(st, action) ==
    LET car == findCar(action.result.vehicles)
        first == IF Len(action.result.vehicles) > 0
                 THEN action.result.vehicles[1] ELSE undefined
        newState == [st EXCEPT !.routingVehicle = IF car # undefined THEN car ELSE first]
    IN  Returned(newState, routeIfAllPointsSet(newState))

\* InfoReceived selecting the first vehicle of the list, car or not.
reduceInfoReceivedFirst(st, action) ==
    LET first == IF Len(action.result.vehicles) > 0
                 THEN action.result.vehicles[1] ELSE undefined
    IN  Returned([st EXCEPT !.routingVehicle = first], NoRoute)

reduceInfoReceived(st, action) ==
    LET car == findCar(action.result.vehicles)
        first == IF Len(action.result.vehicles) > 0
                 THEN action.result.vehicles[1] ELSE undefined
    IN  Returned([st EXCEPT !.routingVehicle = IF car # undefined THEN car ELSE first],
                 NoRoute)

reduceSetVehicle(st, action) ==
    LET newState == [st EXCEPT !.routingVehicle = action.vehicle]
    IN  Returned(newState, routeIfAllPointsSet(newState))

\* reduce returning the initial state for the actions it has no branch for.
reduceResetting(st, action) ==
    CASE action.type = "SetPoint" -> reduceSetPoint(st, action)
      [] action.type = "InvalidatePoint" -> reduceInvalidatePoint(st, action)
      [] action.type = "ClearPoints" -> reduceClearPoints(st, action)
      [] action.type = "AddPoint" -> reduceAddPoint(st, action)
      [] action.type = "RemovePoint" -> reduceRemovePoint(st, action)
      [] action.type = "InfoReceived" -> reduceInfoReceived(st, action)
      [] action.type = "SetVehicle" -> reduceSetVehicle(st, action)
      [] OTHER -> Returned(getInitialState, NoRoute)

reduce(st, action) ==
    CASE action.type = "SetPoint" -> reduceSetPoint(st, action)
      [] action.type = "InvalidatePoint" -> reduceInvalidatePoint(st, action)
      [] action.type = "ClearPoints" -> reduceClearPoints(st, action)
      [] action.type = "AddPoint" -> reduceAddPoint(st, action)
      [] action.type = "RemovePoint" -> reduceRemovePoint(st, action)
      [] action.type = "InfoReceived" -> reduceInfoReceived(st, action)
      [] action.type = "SetVehicle" -> reduceSetVehicle(st, action)
      [] OTHER -> Returned(st, NoRoute)

----------------------------------------------------------------------------
(* Routing client *)

\* createRequest taking points_encoded from the arguments of the caller.
createRequestAsAsked(args) ==
    [vehicle |-> IF args.vehicle = "" THEN "car" ELSE args.vehicle,
     elevation |-> FALSE,
     debug |-> FALSE,
     instructions |-> TRUE,
     locale |-> "en",
     optimize |-> "false",
     points_encoded |-> args.points_encoded,
     alternative_route_max_paths |-> 2,
     ch_disable |-> TRUE,
     algorithm |-> "alternative_route",
     points |-> args.points]

\* args.vehicle || 'car': the empty string is falsy.
createRequest(args) ==
    [vehicle |-> IF args.vehicle = "" THEN "car" ELSE args.vehicle,
     elevation |-> FALSE,
     debug |-> FALSE,
     instructions |-> TRUE,
     locale |-> "en",
     optimize |-> "false",
     points_encoded |-> TRUE,
     alternative_route_max_paths |-> 2,
     ch_disable |-> TRUE,
     algorithm |-> "alternative_route",
     points |-> args.points]

\* route(args) up to its first await: the request is built and POSTed by
\* fetch, and the call waits for the response.
route(args) ==
    [post |-> createRequest(args),
     call |-> [pc |-> "fetch", message |-> "", error |-> ""]]

----------------------------------------------------------------------------
(* Numbers *)

\* F(value), the value being computed once however often F uses it.
With(value, F(_)) ==
    CHOOSE r \in { F(v) : v \in {value} } : TRUE

\* A number that may be NaN: charCodeAt past the end of the string, and
\* what the arithmetic makes of it.
NaN == [isNaN |-> TRUE, value |-> 0]

Num(n) == [isNaN |-> FALSE, value |-> n]

\* x - n
Minus(x, n) == IF x.isNaN THEN NaN ELSE Num(x.value - n)

\* x >= n: false when x is NaN.
GreaterEq(x, n) == ~x.isNaN /\ x.value >= n

\* ToInt32 of the operands of the bitwise operators: NaN becomes 0.
ToInt32(x) == IF x.isNaN THEN 0 ELSE x.value

\* Bit i of a 32-bit integer in two's complement; bit 31 is the sign.
Bit(n, i) == IF i = 31 THEN n < 0 ELSE (n \div 2^i) % 2 = 1

\* The bits i to 30 of a | b
RECURSIVE OrSum(_, _, _)
OrSum(a, b, i) ==
    IF i > 30 THEN 0
    ELSE (IF Bit(a, i) \/ Bit(b, i) THEN 2^i ELSE 0) + OrSum(a, b, i + 1)

\* The bits i to 30 of a & b
RECURSIVE AndSum(_, _, _)
AndSum(a, b, i) ==
    IF i > 30 THEN 0
    ELSE (IF Bit(a, i) /\ Bit(b, i) THEN 2^i ELSE 0) + AndSum(a, b, i + 1)

\* a & b
BitAnd(a, b) ==
    With(<<a, b>>, LAMBDA ab :
        IF ab[1] < 0 /\ ab[2] < 0 THEN (AndSum(ab[1], ab[2], 0) - 2^30) - 2^30
        ELSE AndSum(ab[1], ab[2], 0))

\* a | b
BitOr(a, b) ==
    With(<<a, b>>, LAMBDA ab :
        IF ab[1] < 0 \/ ab[2] < 0 THEN (OrSum(ab[1], ab[2], 0) - 2^30) - 2^30
        ELSE OrSum(ab[1], ab[2], 0))

\* ~a
BitNot(a) == (-1) - a

\* a << n: the shift count is taken modulo 32 and the result is cut to 32
\* bits, bit 31 - n of a becoming the sign.
ShiftLeft(a, n) ==
    With(<<a, n % 32>>, LAMBDA as :
        LET low == IF as[2] = 31 THEN 0 ELSE (as[1] % 2^(31 - as[2])) * 2^as[2]
        IN  IF as[2] = 0 THEN as[1]
            ELSE IF Bit(as[1], 31 - as[2]) THEN (low - 2^30) - 2^30
            ELSE low)

\* a >> n: the sign bit is shifted in.
ShiftRight(a, n) ==
    LET s == n % 32
    IN  IF s = 31 THEN (IF a < 0 THEN -1 ELSE 0) ELSE a \div 2^s

\* Natural numbers of any size, as the sequence of their digits in base
\* 2^12, lowest digit first and no zero digit last; they carry the 53-bit
\* mantissas of the doubles.
Limb == 2^12

RECURSIVE BigOfInt(_)
BigOfInt(n) ==
    IF n = 0 THEN <<>> ELSE <<n % Limb>> \o BigOfInt(n \div Limb)

RECURSIVE BigNorm(_)
BigNorm(a) ==
    IF a = <<>> THEN a
    ELSE IF a[Len(a)] = 0 THEN BigNorm(SubSeq(a, 1, Len(a) - 1))
    ELSE a

RECURSIVE BigAddCarry(_, _, _)
BigAddCarry(a, b, c) ==
    IF a = <<>> /\ b = <<>> THEN BigOfInt(c)
    ELSE LET x == IF a = <<>> THEN 0 ELSE Head(a)
             y == IF b = <<>> THEN 0 ELSE Head(b)
             t == x + y + c
         IN  <<t % Limb>> \o BigAddCarry(IF a = <<>> THEN a ELSE Tail(a),
                                         IF b = <<>> THEN b ELSE Tail(b),
                                         t \div Limb)

BigAdd(a, b) == BigNorm(BigAddCarry(a, b, 0))

\* a - b for a >= b
RECURSIVE BigSubBorrow(_, _, _)
BigSubBorrow(a, b, c) ==
    IF a = <<>> THEN <<>>
    ELSE LET y == IF b = <<>> THEN 0 ELSE Head(b)
             t == Head(a) - y - c
         IN  <<t % Limb>> \o BigSubBorrow(Tail(a),
                                          IF b = <<>> THEN b ELSE Tail(b),
                                          IF t < 0 THEN 1 ELSE 0)

BigSub(a, b) == BigNorm(BigSubBorrow(a, b, 0))

\* a * k for k < 2^18
RECURSIVE BigMulSmallCarry(_, _, _)
BigMulSmallCarry(a, k, c) ==
    IF a = <<>> THEN BigOfInt(c)
    ELSE LET t == Head(a) * k + c
         IN  <<t % Limb>> \o BigMulSmallCarry(Tail(a), k, t \div Limb)

BigMulSmall(a, k) == BigNorm(BigMulSmallCarry(a, k, 0))

RECURSIVE BigMul(_, _)
BigMul(a, b) ==
    IF a = <<>> \/ b = <<>> THEN <<>>
    ELSE BigAdd(BigMulSmall(a, Head(b)), BigNorm(<<0>> \o BigMul(a, Tail(b))))

\* -1, 0 or 1 as a is below, equal to or above b
RECURSIVE BigCmp(_, _)
BigCmp(a, b) ==
    IF Len(a) # Len(b) THEN (IF Len(a) < Len(b) THEN -1 ELSE 1)
    ELSE IF a = <<>> THEN 0
    ELSE IF a[Len(a)] # b[Len(b)] THEN (IF a[Len(a)] < b[Len(b)] THEN -1 ELSE 1)
    ELSE BigCmp(SubSeq(a, 1, Len(a) - 1), SubSeq(b, 1, Len(b) - 1))

\* Quotient (digits not normalised) and remainder of a by d, for d < 2^18
RECURSIVE BigDivSmall(_, _)
BigDivSmall(a, d) ==
    IF a = <<>> THEN [q |-> <<>>, r |-> 0]
    ELSE LET hi == BigDivSmall(Tail(a), d)
             t == hi.r * Limb + Head(a)
         IN  [q |-> <<t \div d>> \o hi.q, r |-> t % d]

\* a * 2^k
BigShiftLeft(a, k) ==
    BigNorm([i \in 1..(k \div 12) |-> 0] \o BigMulSmallCarry(a, 2^(k % 12), 0))

\* a \div 2^k
BigShiftRight(a, k) ==
    IF k \div 12 >= Len(a) THEN <<>>
    ELSE BigNorm(BigDivSmall(SubSeq(a, (k \div 12) + 1, Len(a)), 2^(k % 12)).q)

RECURSIVE IntBitLength(_)
IntBitLength(n) == IF n = 0 THEN 0 ELSE 1 + IntBitLength(n \div 2)

BigBitLength(a) ==
    IF a = <<>> THEN 0 ELSE 12 * (Len(a) - 1) + IntBitLength(a[Len(a)])

\* A double: m * 2^e, negated when neg, with m of exactly 53 bits, or zero.
Zero == [neg |-> FALSE, m |-> <<>>, e |-> 0]

\* The double nearest to n * 2^s / d (ties to the even mantissa), for a
\* natural number n > 0 and an integer 0 < d < 2^18.
RoundToDouble(n, d, s) ==
    LET a == Max(0, 55 + IntBitLength(d) - BigBitLength(n))
        qr == BigDivSmall(BigShiftLeft(n, a), d)
        q == BigNorm(qr.q)
        k == BigBitLength(q) - 53
        m0 == BigShiftRight(q, k)
        low == BigSub(q, BigShiftLeft(m0, k))
        c == BigCmp(low, BigShiftLeft(<<1>>, k - 1))
        up == c > 0 \/ (c = 0 /\ (qr.r # 0 \/ m0[1] % 2 = 1))
        m1 == IF up THEN BigAdd(m0, <<1>>) ELSE m0
    IN  IF BigBitLength(m1) = 54
        THEN [neg |-> FALSE, m |-> BigShiftRight(m1, 1), e |-> s - a + k + 1]
        ELSE [neg |-> FALSE, m |-> m1, e |-> s - a + k]

Abs(n) == IF n < 0 THEN -n ELSE n

\* The number a decimal literal denotes: the double nearest to num / den.
Decimal(num, den) ==
    IF num = 0 THEN Zero
    ELSE [RoundToDouble(BigOfInt(Abs(num)), den, 0) EXCEPT !.neg = num < 0]

\* The double n * x for an integer n and a double x > 0
Multiply(n, x) ==
    IF n = 0 THEN Zero
    ELSE [RoundToDouble(BigMul(BigOfInt(Abs(n)), x.m), 1, x.e) EXCEPT !.neg = n < 0]

\* The double n / d for integers n and d > 0
Divide(n, d) ==
    IF n = 0 THEN Zero
    ELSE [RoundToDouble(BigOfInt(Abs(n)), d, 0) EXCEPT !.neg = n < 0]

\* The numbers of a coordinate list are kept as the operation that makes
\* them, with its operands: the product of an integer and a decimal literal
\* (lng * 1e-5), the quotient of two integers (ele / 100), or a decimal
\* literal num / den.  Value is the double the operation results in.
Times(n, literal) == [times |-> n, by |-> literal]

DividedBy(n, d) == [divided |-> n, by |-> d]

Literal(num, den) == [literal |-> <<num, den>>]

Value(number) ==
    IF "times" \in DOMAIN number
    THEN Multiply(number.times, Decimal(number.by.literal[1], number.by.literal[2]))
    ELSE IF "divided" \in DOMAIN number
    THEN Divide(number.divided, number.by)
    ELSE Decimal(number.literal[1], number.literal[2])

----------------------------------------------------------------------------
(* Decoding of the route response *)

\* A string is the sequence of its characters.  The characters of code 32
\* to 126, in the order of their codes; three of them are written by name.
Ascii ==
    << " ", "!", "QUOTATION MARK", "#", "$", "%", "&", "'", "(", ")", "*", "+", ",", "-", ".", "/",
       "0", "1", "2", "3", "4", "5", "6", "7", "8", "9", ":", ";", "<", "=", ">", "?",
       "@", "A", "B", "C", "D", "E", "F", "G", "H", "I", "J", "K", "L", "M", "N", "O",
       "P", "Q", "R", "S", "T", "U", "V", "W", "X", "Y", "Z", "[", "REVERSE SOLIDUS", "]", "^", "_",
       "GRAVE ACCENT", "a", "b", "c", "d", "e", "f", "g", "h", "i", "j", "k", "l", "m", "n", "o",
       "p", "q", "r", "s", "t", "u", "v", "w", "x", "y", "z", "{", "|", "}", "~" >>

\* String.prototype.charCodeAt(index): NaN when there is no character at
\* the index.
charCodeAt(encoded, index) ==
    IF index >= 0 /\ index < Len(encoded)
    THEN Num(31 + CHOOSE k \in 1..Len(Ascii) : Ascii[k] = encoded[index + 1])
    ELSE NaN

LineString(coordinates) == [type |-> "LineString", coordinates |-> coordinates]

\* A string as the value of a property that may hold a LineString instead.
String(chars) == [chars |-> chars]

\* result >> 1, whatever the lowest bit of result.
zigzagUnsigned(result) ==
    ShiftRight(result, 1)

\* result & 1 ? ~(result >> 1) : result >> 1
zigzag(result) ==
    IF BitAnd(result, 1) # 0 THEN BitNot(ShiftRight(result, 1)) ELSE ShiftRight(result, 1)

\* decodePath(encoded, is3D) at its first loop test.  pc is the place of
\* the call: "while" at the test of the outer loop, "lat", "lng" and "ele"
\* in the do-while of that delta, "return" at the return statement.
decodePathStart(encoded, is3D) ==
    [encoded |-> encoded, is3D |-> is3D, len |-> Len(encoded), index |-> 0,
     array |-> <<>>, lat |-> 0, lng |-> 0, ele |-> 0,
     shift |-> 0, result |-> 0, pc |-> "while"]

\* One pass of the do-while that reads the delta of d.pc, with what follows
\* the loop when the pass is its last.
decodePathPass(d) ==
    With(Minus(charCodeAt(d.encoded, d.index), 63), LAMBDA b :
    With(BitOr(d.result, ShiftLeft(BitAnd(ToInt32(b), 31), d.shift)), LAMBDA result :
    With(zigzag(result), LAMBDA delta :
        LET read == [d EXCEPT !.index = d.index + 1, !.result = result,
                              !.shift = d.shift + 5]
        IN  IF GreaterEq(b, 32) THEN read
            ELSE CASE d.pc = "lat" ->
                        [read EXCEPT !.lat = d.lat + delta,
                                     !.shift = 0, !.result = 0, !.pc = "lng"]
                   [] d.pc = "lng" /\ d.is3D ->
                        [read EXCEPT !.lng = d.lng + delta,
                                     !.shift = 0, !.result = 0, !.pc = "ele"]
                   [] d.pc = "lng" /\ ~d.is3D ->
                        [read EXCEPT !.lng = d.lng + delta,
                                     !.array = Append(d.array,
                                                  << Times(d.lng + delta, Literal(1, 100000)),
                                                     Times(d.lat, Literal(1, 100000)) >>),
                                     !.pc = "while"]
                   [] d.pc = "ele" ->
                        [read EXCEPT !.ele = d.ele + delta,
                                     !.array = Append(d.array,
                                                  << Times(d.lng, Literal(1, 100000)),
                                                     Times(d.lat, Literal(1, 100000)),
                                                     DividedBy(d.ele + delta, 100) >>),
                                     !.pc = "while"])))

\* decodePath entering its outer loop also when index = len.
decodePathStepInclusive(d) ==
    IF d.pc = "while"
    THEN IF d.index <= d.len
         THEN [d EXCEPT !.pc = "lat", !.shift = 0, !.result = 0]
         ELSE [d EXCEPT !.pc = "return"]
    ELSE decodePathPass(d)

\* One step of decodePath: the test of the outer loop, or one pass of a
\* do-while.
decodePathStep(d) ==
    IF d.pc = "while"
    THEN IF d.index < d.len
         THEN [d EXCEPT !.pc = "lat", !.shift = 0, !.result = 0]
         ELSE [d EXCEPT !.pc = "return"]
    ELSE decodePathPass(d)

RECURSIVE decodePathRun(_)
decodePathRun(d) ==
    IF d.pc = "return" THEN d.array ELSE decodePathRun(decodePathStep(d))

decodePath(encoded, is3D) == decodePathRun(decodePathStart(encoded, is3D))

\* decodePoints(path), with d the call of decodePath it made for an encoded
\* path.
decodePoints(p, d) ==
    IF p.points_encoded THEN LineString(d.array) ELSE p.points

decodeWaypoints(p) ==
    IF p.points_encoded THEN LineString(decodePath(p.snapped_waypoints.chars, FALSE))
    ELSE p.snapped_waypoints

\* Array.prototype.slice(start, end)
slice(arr, start, end) ==
    LET from == IF start < 0 THEN Max(Len(arr) + start, 0) ELSE Min(start, Len(arr))
        to == IF end < 0 THEN Max(Len(arr) + end, 0) ELSE Min(end, Len(arr))
    IN  IF from < to THEN SubSeq(arr, from + 1, to) ELSE <<>>

\* setPointsOnInstructions slicing up to interval[1], the last index left out.
setPointsOnInstructionsExclusive(p) ==
    IF "instructions" \in DOMAIN p
    THEN [k \in 1..Len(p.instructions) |->
            [interval |-> p.instructions[k].interval,
             points |-> slice(p.points.coordinates,
                              p.instructions[k].interval[1],
                              p.instructions[k].interval[2])]]
    ELSE undefined

\* A path without the property `instructions` reads undefined for it.
setPointsOnInstructions(p) ==
    IF "instructions" \in DOMAIN p
    THEN [k \in 1..Len(p.instructions) |->
            [interval |-> p.instructions[k].interval,
             points |-> slice(p.points.coordinates,
                              p.instructions[k].interval[1],
                              p.instructions[k].interval[2] + 1)]]
    ELSE undefined

\* decodeResult for one path, with d the call of decodePath that decoded
\* its points.
decodeResult(p, d) ==
    LET decodedPath == [points |-> decodePoints(p, d),
                        snapped_waypoints |-> decodeWaypoints(p),
                        points_encoded |-> p.points_encoded]
                       @@ p
    IN  [instructions |-> setPointsOnInstructions(decodedPath)] @@ decodedPath

----------------------------------------------------------------------------
(* Actions of the catalog *)

SetPoint(point) == [type |-> "SetPoint", point |-> point]

InvalidatePoint(point) == [type |-> "InvalidatePoint", point |-> point]

ClearPoints == [type |-> "ClearPoints"]

AddPoint(atIndex, coordinate, isInitialized) ==
    [type |-> "AddPoint", atIndex |-> atIndex, coordinate |-> coordinate,
     isInitialized |-> isInitialized]

RemovePoint(point) == [type |-> "RemovePoint", point |-> point]

InfoReceived(result) == [type |-> "InfoReceived", result |-> result]

SetVehicle(vehicle) == [type |-> "SetVehicle", vehicle |-> vehicle]

RouteReceived(result) == [type |-> "RouteReceived", result |-> result]

ClearRoute == [type |-> "ClearRoute"]

----------------------------------------------------------------------------
(* Inputs *)

\* The waypoints of the state, as the views show them.
ShownPoints(st) ==
    { st.queryPoints[i] : i \in 1..Len(st.queryPoints) }

\* A waypoint a view still shows after the store has dropped it.
StalePoints == { getEmptyPoint(MaxId, "Via") }

\* The point records the views hand to SetPoint: one of the given points
\* with a new coordinate, the text of the coordinate and a flag.
EditedPoints(points, coords) ==
    { [p EXCEPT !.coordinate = c, !.queryText = coordinateText(c), !.isInitialized = b] :
        p \in points, c \in coords, b \in BOOLEAN }

\* The strings of at most n characters of the given set.
Strings(chars, n) ==
    UNION { [1..k -> chars] : k \in 0..n }

\* Characters of the encoding: a delta of 0, a delta of 1, and two
\* characters with the continuation bit, of payload 0 and 1.
Alphabet == {"?", "A", "_", "GRAVE ACCENT"}

\* The geometry "_p~iF~ps|U_ulLnnqC_mqNvxq`@".
ReferencePath ==
    << "_", "p", "~", "i", "F", "~", "p", "s", "|", "U", "_", "u", "l", "L",
       "n", "n", "q", "C", "_", "m", "q", "N", "v", "x", "q", "GRAVE ACCENT", "@" >>

\* The geometry of five points, each one step from the point before it.
FivePointPath == [i \in 1..10 |-> "A"]

\* An unsigned number as a varint of 5-bit groups, lowest group first, each
\* but the last with the continuation bit 0x20, as characters of code + 63.
RECURSIVE encodeVarint(_)
encodeVarint(v) ==
    IF v >= 32 THEN <<Ascii[(32 + (v % 32)) + 63 - 31]>> \o encodeVarint(v \div 32)
    ELSE <<Ascii[v + 63 - 31]>>

\* A signed delta, zig-zag encoded, as a varint.
encodeSigned(delta) ==
    encodeVarint(IF delta < 0 THEN -2 * delta - 1 ELSE 2 * delta)

\* The deltas of the encoded points among the inputs of decodePath.
Deltas == {-3000, -17, -1, 16, 179}

\* The strings decodePath is called with.
EncodedInputs ==
    Strings(Alphabet, MaxLen)
        \cup {ReferencePath, FivePointPath}
        \cup { encodeSigned(a) \o encodeSigned(b) : a, b \in Deltas }

Instruction(from, to) == [interval |-> <<from, to>>]

\* The instructions of a path of the response, when it has any.
InstructionLists ==
    { <<>>,
      <<Instruction(0, 2)>>,
      <<Instruction(0, 0), Instruction(0, 1)>>,
      <<Instruction(1, 1), Instruction(1, 4)>> }

\* The paths of a route response: encoded or not, with instructions or
\* without.
RawPaths ==
    LET encoded == { [points_encoded |-> TRUE, points |-> String(e),
                      snapped_waypoints |-> String(<<"A", "A">>)] :
                        e \in Strings(Alphabet, MaxLen) \cup {FivePointPath} }
        plain == { [points_encoded |-> FALSE,
                    points |-> LineString([i \in 1..5 |-> <<Literal(i, 10), Literal(-i, 10)>>]),
                    snapped_waypoints |-> LineString(<<>>)] }
    IN  (encoded \cup plain)
            \cup { [instructions |-> ins] @@ p : ins \in InstructionLists,
                                                 p \in encoded \cup plain }

\* No path: no response is being decoded.
NoPath == [none |-> TRUE]

\* No call of decodePath is running.
Idle == [pc |-> "idle"]


\* Any point records for the given points: a view may hand over a record
\* of any type, with the color of that type.
AnyPoints(points) ==
    { [p EXCEPT !.type = type, !.color = getMarkerColor(type)] :
        p \in points, type \in QueryPointType }

----------------------------------------------------------------------------
(* The store's state machine *)

Init ==
    /\ state = getInitialState
    /\ posted = <<>>
    /\ requests = <<>>
    /\ received = <<>>
    /\ error = ""
    /\ last = "none"
    /\ rawPath = NoPath
    /\ decoder = Idle
    /\ path = NoPath

\* Dispatcher.dispatch(action): the store reduces the action.  When reduce
\* throws, no new state is returned and the store keeps the one it has.
Dispatch(action) ==
    LET r == reduce(state, action)
    IN  /\ Len(requests) + Len(r.routed) <= MaxRequests
        /\ state' = IF r.threw THEN state ELSE r.state
        /\ posted' = [i \in 1..Len(r.routed) |-> route(r.routed[i]).post]
        /\ requests' = requests \o [i \in 1..Len(r.routed) |-> route(r.routed[i]).call]
        /\ error' = IF r.threw THEN "TypeError" ELSE ""
        /\ last' = action.type

DispatchSetPoint(coords) ==
    \E p \in EditedPoints(ShownPoints(state) \cup StalePoints, coords) :
        Dispatch(SetPoint(p)) /\ UNCHANGED <<received, decodeVars>>

DispatchInvalidatePoint ==
    \E p \in ShownPoints(state) \cup StalePoints :
        Dispatch(InvalidatePoint(p)) /\ UNCHANGED <<received, decodeVars>>

DispatchSetAnyPoint ==
    \E p \in AnyPoints(ShownPoints(state) \cup StalePoints) :
        Dispatch(SetPoint(p)) /\ UNCHANGED <<received, decodeVars>>

DispatchInvalidateAnyPoint ==
    \E p \in AnyPoints(ShownPoints(state) \cup StalePoints) :
        Dispatch(InvalidatePoint(p)) /\ UNCHANGED <<received, decodeVars>>

DispatchClearPoints ==
    Dispatch(ClearPoints) /\ UNCHANGED <<received, decodeVars>>

DispatchAddPoint(coords) ==
    /\ state.nextId < MaxId
    /\ \E atIndex \in -1..MaxIndex, c \in coords, b \in BOOLEAN :
          Dispatch(AddPoint(atIndex, c, b))
    /\ UNCHANGED <<received, decodeVars>>

DispatchRemovePoint(stale) ==
    \E p \in ShownPoints(state) \cup stale :
        Dispatch(RemovePoint(p)) /\ UNCHANGED <<received, decodeVars>>

DispatchInfoReceived ==
    \E vehicles \in VehicleLists :
        Dispatch(InfoReceived([vehicles |-> vehicles])) /\ UNCHANGED <<received, decodeVars>>

DispatchSetVehicle ==
    \E key \in {"car", "bike"} : Dispatch(SetVehicle(Vehicle(key))) /\ UNCHANGED <<received, decodeVars>>

DispatchClearRoute ==
    Dispatch(ClearRoute) /\ UNCHANGED <<received, decodeVars>>

\* A RouteReceived reaching the store, whoever published it.
DispatchRouteReceived ==
    Dispatch(RouteReceived([call |-> 0])) /\ UNCHANGED <<received, decodeVars>>

\* The fetch of call i resolves with a response, successful or not.
FetchResolves(i) ==
    /\ i \in 1..Len(requests)
    /\ requests[i].pc = "fetch"
    /\ \E ok \in BOOLEAN, message \in Messages :
          requests' = [requests EXCEPT ![i].pc = IF ok THEN "json" ELSE "errorJson",
                                       ![i].message = IF ok THEN "" ELSE message]
    /\ UNCHANGED <<state, posted, received, error, last, decodeVars>>

\* route dispatching its result only when no later call was made.
RouteResolvesLatestOnly(i) ==
    /\ i \in 1..Len(requests)
    /\ requests[i].pc = "json"
    /\ requests' = [requests EXCEPT ![i].pc = "done"]
    /\ received' = IF i = Len(requests) THEN Append(received, i) ELSE received
    /\ last' = IF i = Len(requests) THEN "RouteReceived" ELSE last
    /\ posted' = IF i = Len(requests) THEN <<>> ELSE posted
    /\ UNCHANGED <<state, error, decodeVars>>

\* Dispatcher.dispatch(new RouteReceived(result)) of call i, the last
\* statement of a call whose response is successful.
Deliver(i) ==
    /\ i \in 1..Len(requests)
    /\ requests[i].pc = "json"
    /\ LET r == reduce(state, RouteReceived([call |-> i]))
       IN  /\ state' = IF r.threw THEN state ELSE r.state
           /\ posted' = [k \in 1..Len(r.routed) |-> route(r.routed[k]).post]
           /\ requests' = [requests EXCEPT ![i].pc = "done"]
                             \o [k \in 1..Len(r.routed) |-> route(r.routed[k]).call]
           /\ error' = IF r.threw THEN "TypeError" ELSE ""
    /\ received' = Append(received, i)
    /\ last' = "RouteReceived"

\* response.json() of a successful response resolves: the result is decoded
\* and dispatched as RouteReceived.  The decoding of the result is left
\* out here, DecodeResultReturns has it.
RouteResolves(i) ==
    Deliver(i) /\ UNCHANGED decodeVars

\* One test of the outer loop of the running decodePath.
DecodePathWhile ==
    /\ decoder.pc = "while"
    /\ decoder' = decodePathStep(decoder)
    /\ UNCHANGED <<state, posted, requests, received, error, last, rawPath, path>>

\* One pass of a do-while of the running decodePath: one character is read.
DecodePathPass ==
    /\ decoder.pc \in {"lat", "lng", "ele"}
    /\ decoder' = decodePathStep(decoder)
    /\ UNCHANGED <<state, posted, requests, received, error, last, rawPath, path>>

\* decodeResult returns the decoded path of the response of call 1, and
\* route dispatches it.
DecodeResultReturns ==
    /\ rawPath # NoPath
    /\ path = NoPath
    /\ rawPath.points_encoded => decoder.pc = "return"
    /\ path' = decodeResult(rawPath, decoder)
    /\ Deliver(1)
    /\ UNCHANGED <<rawPath, decoder>>

\* route posting the request again when the response is not successful.
RouteFailsRetrying(i) ==
    /\ i \in 1..Len(requests)
    /\ requests[i].pc = "errorJson"
    /\ requests' = [requests EXCEPT ![i].pc = "fetch", ![i].message = ""]
    /\ UNCHANGED <<state, posted, received, error, last, decodeVars>>

\* response.json() of a failed response resolves: route throws an Error
\* with the message of the body.
RouteFails(i) ==
    /\ i \in 1..Len(requests)
    /\ requests[i].pc = "errorJson"
    /\ requests' = [requests EXCEPT ![i].pc = "rejected", ![i].error = requests[i].message]
    /\ UNCHANGED <<state, posted, received, error, last, decodeVars>>

\* The coordinate of a click on the map.
Clicked == {[lat |-> 1, lng |-> 2]}

\* The store under every action of the catalog; the responses of the
\* routing service are left out.
Next ==
    \/ DispatchSetPoint(Clicked)
    \/ DispatchInvalidatePoint
    \/ DispatchClearPoints
    \/ DispatchAddPoint(Clicked)
    \/ DispatchRemovePoint({})
    \/ DispatchInfoReceived
    \/ DispatchSetVehicle
    \/ DispatchClearRoute
    \/ DispatchRouteReceived

Spec == Init /\ [][Next]_vars

\* Waypoints are only added and removed.
NextAddRemove ==
    \/ DispatchAddPoint(Coords)
    \/ DispatchRemovePoint(StalePoints)

SpecAddRemove == Init /\ [][NextAddRemove]_vars

\* The two waypoints of the initial state are edited and cleared.
NextPoints ==
    \/ DispatchSetPoint(Coords)
    \/ DispatchInvalidatePoint
    \/ DispatchClearPoints
    \/ DispatchSetVehicle

SpecPoints == Init /\ [][NextPoints]_vars

\* The store under its seven actions, SetPoint and InvalidatePoint with any
\* point record.
NextAnyPoint ==
    \/ DispatchSetAnyPoint
    \/ DispatchInvalidateAnyPoint
    \/ DispatchClearPoints
    \/ DispatchAddPoint(Clicked)
    \/ DispatchRemovePoint(StalePoints)
    \/ DispatchInfoReceived
    \/ DispatchSetVehicle

SpecAnyPoint == Init /\ [][NextAnyPoint]_vars

\* The routing client: route requests are triggered and their responses
\* arrive, in any order.
NextRoute ==
    \/ DispatchSetPoint(Clicked)
    \/ DispatchSetVehicle
    \/ \E i \in 1..MaxRequests : FetchResolves(i)
    \/ \E i \in 1..MaxRequests : RouteResolves(i)
    \/ \E i \in 1..MaxRequests : RouteFails(i)

SpecRoute == Init /\ [][NextRoute]_vars

\* The continuation of a call runs once the promise it awaits is resolved.
SpecRouteFair ==
    /\ SpecRoute
    /\ \A i \in 1..MaxRequests : WF_vars(RouteResolves(i))

\* decodePath called with a string and a flag.
InitDecodePath ==
    /\ state = getInitialState
    /\ posted = <<>>
    /\ requests = <<>>
    /\ received = <<>>
    /\ error = ""
    /\ last = "none"
    /\ rawPath = NoPath
    /\ \E encoded \in EncodedInputs, is3D \in BOOLEAN :
          decoder = decodePathStart(encoded, is3D)
    /\ path = NoPath

NextDecodePath ==
    \/ DecodePathWhile
    \/ DecodePathPass

SpecDecodePath == InitDecodePath /\ [][NextDecodePath]_vars

\* decodePath runs on: nothing but decodePath is scheduled while it runs.
SpecDecodePathFair == SpecDecodePath /\ WF_vars(NextDecodePath)

\* The response of one call of route has arrived with a path, and
\* decodeResult has called decodePoints for it.
InitDecodeResult ==
    /\ state = getInitialState
    /\ posted = <<>>
    /\ requests = << [pc |-> "json", message |-> "", error |-> ""] >>
    /\ received = <<>>
    /\ error = ""
    /\ last = "SetPoint"
    /\ rawPath \in RawPaths
    /\ decoder = IF rawPath.points_encoded
                 THEN decodePathStart(rawPath.points.chars, FALSE) ELSE Idle
    /\ path = NoPath

NextDecodeResult ==
    \/ DecodePathWhile
    \/ DecodePathPass
    \/ DecodeResultReturns

SpecDecodeResult == InitDecodeResult /\ [][NextDecodeResult]_vars

----------------------------------------------------------------------------
(* Properties *)

\* The state has at least 2 waypoints and every waypoint is initialized.
RouteReady(st) ==
    /\ Len(st.queryPoints) >= 2
    /\ \A i \in 1..Len(st.queryPoints) : st.queryPoints[i].isInitialized

\* The actions after which the store evaluates the route trigger.
Triggering == {"SetPoint", "AddPoint", "RemovePoint", "SetVehicle"}

\* The role position i (1-based) of a list of n waypoints is to have.
RoleAt(i, n) ==
    IF i = 1 THEN "From" ELSE IF i = n THEN "To" ELSE "Via"

\* How often the RouteReceived of call i was dispatched.
Delivered(i) ==
    Cardinality({ k \in 1..Len(received) : received[k] = i })

\* C1: after any sequence of AddPoint and RemovePoint from the initial
\* state, the first waypoint is From, the last of two or more is To, the
\* ones in between are Via, and every color is the color of the role.
RolesFollowPositions ==
    \A i \in 1..Len(state.queryPoints) :
        /\ state.queryPoints[i].type = RoleAt(i, Len(state.queryPoints))
        /\ state.queryPoints[i].color = getMarkerColor(state.queryPoints[i].type)

\* C2: a dispatched SetPoint, AddPoint, RemovePoint or SetVehicle posts a
\* route request, exactly one, if and only if the state it leaves has at
\* least 2 waypoints, all initialized.
RouteIffReady ==
    [][last' \in Triggering =>
          /\ (Len(requests') = Len(requests) + 1) <=> RouteReady(state')
          /\ Len(posted') = Len(requests') - Len(requests)
          /\ Len(requests') \in {Len(requests), Len(requests) + 1}]_vars

\* The state the first SetPoint of C3 leaves: the initial state with the
\* waypoint of id 0 replaced by an initialized point.
FirstPointSet ==
    /\ state.nextId = getInitialState.nextId
    /\ state.routingVehicle = getInitialState.routingVehicle
    /\ Len(state.queryPoints) = 2
    /\ state.queryPoints[1].id = 0
    /\ state.queryPoints[1].isInitialized
    /\ state.queryPoints[2] = getInitialState.queryPoints[2]

\* C3: from the initial state, SetPoint of an initialized point for id 0
\* posts no request, and the SetPoint of an initialized point for id 1 that
\* follows posts exactly one, with the coordinates of the two waypoints in
\* list order, each as <<lng, lat>>.
SecondSetPointRoutes ==
    [][/\ (/\ state = getInitialState
           /\ last' = "SetPoint"
           /\ state'.queryPoints[1].isInitialized)
          => (posted' = <<>> /\ requests' = requests)
       /\ (/\ FirstPointSet
           /\ last' = "SetPoint"
           /\ state'.queryPoints[2].id = 1
           /\ state'.queryPoints[2].isInitialized)
          => /\ Len(requests') = Len(requests) + 1
             /\ Len(posted') = 1
             /\ posted'[1].points =
                   << << state'.queryPoints[1].coordinate.lng,
                         state'.queryPoints[1].coordinate.lat >>,
                      << state'.queryPoints[2].coordinate.lng,
                         state'.queryPoints[2].coordinate.lat >> >>
             /\ state'.queryPoints[1] = state.queryPoints[1]]_vars

\* C3 witness: the second SetPoint posted the one request, Start before End.
SecondSetPointRouted ==
    /\ last = "SetPoint"
    /\ state.nextId = 2
    /\ Len(requests) = 1
    /\ Len(posted) = 1
    /\ posted[1].points = << <<2, 1>>, <<3, -1>> >>
    /\ state.queryPoints[1].id = 0
    /\ state.queryPoints[2].id = 1

\* C4: nextId never decreases and grows by exactly 1 with each AddPoint
\* dispatched, and by nothing else; the ids of the waypoints are below
\* nextId and pairwise distinct.
IdsAreFresh ==
    /\ [](\A i \in 1..Len(state.queryPoints) :
             /\ state.queryPoints[i].id < state.nextId
             /\ \A j \in 1..Len(state.queryPoints) :
                   state.queryPoints[i].id = state.queryPoints[j].id => i = j)
    /\ [][/\ state'.nextId >= state.nextId
          /\ last' = "AddPoint" => state'.nextId = state.nextId + 1
          /\ last' # "AddPoint" => state'.nextId = state.nextId]_vars

\* C5: no call of route() is cancelled by a later one; a call whose
\* response is successful dispatches exactly one RouteReceived, eventually
\* and at the moment its response body resolves, so that RouteReceived are
\* delivered in the order the responses resolve.
EveryRouteDelivered ==
    /\ [](\A i \in 1..Len(requests) :
             /\ requests[i].pc \in {"fetch", "json", "errorJson", "done", "rejected"}
             /\ Delivered(i) = IF requests[i].pc = "done" THEN 1 ELSE 0)
    /\ [][/\ Len(requests') >= Len(requests)
          /\ \A i \in 1..Len(requests) :
                \/ requests'[i] = requests[i]
                \/ /\ requests[i].pc = "fetch"
                   /\ requests'[i].pc \in {"json", "errorJson"}
                   /\ received' = received
                \/ /\ requests[i].pc = "json"
                   /\ requests'[i].pc = "done"
                   /\ received' = Append(received, i)
                \/ /\ requests[i].pc = "errorJson"
                   /\ requests'[i].pc = "rejected"
                   /\ received' = received]_vars
    /\ \A i \in 1..MaxRequests :
          (Len(requests) >= i /\ requests[i].pc = "json") ~> (Delivered(i) = 1)

\* C5 witness: the second call was delivered first, the first call last.
OlderRouteDeliveredLast ==
    /\ received = <<2, 1>>
    /\ requests[1].pc = "done"
    /\ requests[2].pc = "done"

\* C6: a call whose response is not successful ends with the message of the
\* response, dispatches no RouteReceived and is not retried; its failure
\* leaves the state of the store as it is, and the actions dispatched after
\* it post route requests as before.
RouteFailureIsLocal ==
    /\ [](\A i \in 1..Len(requests) :
             requests[i].pc = "rejected" =>
                /\ requests[i].error = requests[i].message
                /\ requests[i].error \in Messages
                /\ Delivered(i) = 0)
    /\ [][\A i \in 1..Len(requests) :
             /\ (requests[i].pc = "errorJson" /\ requests'[i] # requests[i]) =>
                   /\ requests'[i].pc = "rejected"
                   /\ requests'[i].error = requests[i].message
                   /\ Len(requests') = Len(requests)
                   /\ UNCHANGED <<state, posted, received, error, last, decodeVars>>
             /\ requests[i].pc = "rejected" => requests'[i] = requests[i]]_vars
    /\ [][((\E i \in 1..Len(requests) : requests[i].pc = "rejected")
             /\ (DispatchSetPoint(Clicked) \/ DispatchSetVehicle))
          => /\ error' = ""
             /\ (Len(requests') = Len(requests) + 1) <=> RouteReady(state')]_vars

\* C6 witness: the first call failed and a second request is under way.
RoutedAfterFailure ==
    /\ Len(requests) = 2
    /\ requests[1].pc = "rejected"
    /\ requests[1].error = "Bad Request"
    /\ requests[2].pc = "fetch"
    /\ Len(posted) = 1
    /\ received = <<>>

\* C7: InvalidatePoint, ClearPoints, InfoReceived, RouteReceived and
\* ClearRoute post no route request; every request posted is the only one
\* of a SetPoint, AddPoint, RemovePoint or SetVehicle.
OnlyTriggeringActionsRoute ==
    [][/\ last' \notin Triggering => (requests' = requests /\ posted' = <<>>)
       /\ Len(requests') > Len(requests) =>
             (last' \in Triggering /\ Len(requests') = Len(requests) + 1)]_vars

\* C7 witness: an InfoReceived was reduced in a state with all waypoints
\* set and posted nothing.
InfoReceivedWhileReady ==
    /\ last = "InfoReceived"
    /\ RouteReady(state)
    /\ state.routingVehicle # undefined
    /\ posted = <<>>

\* C8: reducing ClearPoints a second time returns the state the first
\* ClearPoints returned.
ClearPointsIdempotent ==
    LET once == reduce(state, ClearPoints).state
        twice == reduce(once, ClearPoints).state
    IN  /\ twice.queryPoints = once.queryPoints
        /\ twice.nextId = once.nextId
        /\ twice.routingVehicle = once.routingVehicle

\* C8 witness: ClearPoints was dispatched on three waypoints.
ThreePointsCleared ==
    /\ last = "ClearPoints"
    /\ Len(state.queryPoints) = 3

\* C9: ClearPoints empties queryText and unsets isInitialized of every
\* waypoint and keeps id, type, color and coordinate of each, their number
\* and order, nextId and the vehicle.
ClearPointsKeepsCoordinates ==
    [][last' = "ClearPoints" =>
          /\ Len(state'.queryPoints) = Len(state.queryPoints)
          /\ \A i \in 1..Len(state.queryPoints) :
                /\ state'.queryPoints[i].queryText = ""
                /\ state'.queryPoints[i].isInitialized = FALSE
                /\ state'.queryPoints[i].id = state.queryPoints[i].id
                /\ state'.queryPoints[i].type = state.queryPoints[i].type
                /\ state'.queryPoints[i].color = state.queryPoints[i].color
                /\ state'.queryPoints[i].coordinate = state.queryPoints[i].coordinate
          /\ state'.nextId = state.nextId
          /\ state'.routingVehicle = state.routingVehicle]_vars

\* C9 witness: after ClearPoints a waypoint still has the coordinate it was
\* given.
StaleCoordinateKept ==
    /\ last = "ClearPoints"
    /\ \E i \in 1..Len(state.queryPoints) :
          /\ state.queryPoints[i].coordinate = [lat |-> 1, lng |-> 2]
          /\ state.queryPoints[i].queryText = ""
          /\ ~state.queryPoints[i].isInitialized

\* C10: RouteReceived and ClearRoute, the actions reduce has no branch for,
\* leave waypoints, nextId and vehicle as they are.
UnhandledActionsKeepState ==
    [][last' \in {"RouteReceived", "ClearRoute"} =>
          /\ state'.queryPoints = state.queryPoints
          /\ state'.nextId = state.nextId
          /\ state'.routingVehicle = state.routingVehicle]_vars

\* C10 witness: an unhandled action was reduced in a state that is not the
\* initial one.
UnhandledActionReduced ==
    /\ last \in {"RouteReceived", "ClearRoute"}
    /\ Len(state.queryPoints) = 3
    /\ state.routingVehicle = Vehicle("bike")

\* The profile C11 names for a list of vehicles that has one: the first
\* whose key is "car", the first of the list when there is none.
CarElseFirst(vehicles) ==
    IF \E i \in 1..Len(vehicles) : vehicles[i].key = "car"
    THEN vehicles[CHOOSE i \in 1..Len(vehicles) :
                     /\ vehicles[i].key = "car"
                     /\ \A j \in 1..(i - 1) : vehicles[j].key # "car"]
    ELSE vehicles[1]

\* C11: InfoReceived with a list of vehicles makes the vehicle whose key is
\* "car" the routing vehicle, wherever it stands in the list, and the first
\* vehicle of the list when none is "car"; waypoints and nextId stay.
InfoReceivedSelectsCarElseFirst ==
    [][\A vehicles \in VehicleLists :
          Dispatch(InfoReceived([vehicles |-> vehicles])) =>
             /\ vehicles # <<>> => state'.routingVehicle = CarElseFirst(vehicles)
             /\ state'.queryPoints = state.queryPoints
             /\ state'.nextId = state.nextId]_vars

\* C11 witness: an InfoReceived selected the car among three waypoints.
CarSelectedByInfo ==
    /\ last = "InfoReceived"
    /\ state.routingVehicle = Vehicle("car")
    /\ Len(state.queryPoints) = 3

\* C12: every request posted carries the coordinates of all waypoints of
\* the state the action leaves, in list order, each as <<lng, lat>>, the
\* key of the routing vehicle of that state, "car" in place of the empty
\* key, and points_encoded true, elevation false and instructions true.
RequestCarriesState ==
    [][\A k \in 1..Len(posted') :
          /\ state'.routingVehicle # undefined
          /\ posted'[k].points =
                [i \in 1..Len(state'.queryPoints) |->
                    << state'.queryPoints[i].coordinate.lng,
                       state'.queryPoints[i].coordinate.lat >>]
          /\ posted'[k].vehicle = IF state'.routingVehicle.key = "" THEN "car"
                                  ELSE state'.routingVehicle.key
          /\ posted'[k].points_encoded = TRUE
          /\ posted'[k].elevation = FALSE
          /\ posted'[k].instructions = TRUE]_vars

\* C12 witness: a request for two waypoints with different coordinates was
\* posted with the vehicle "car" while the routing vehicle has the empty
\* key of the initial state.
CarRequestedForEmptyKey ==
    /\ Len(posted) = 1
    /\ posted[1].points = << <<3, -1>>, <<2, 1>> >>
    /\ posted[1].vehicle = "car"
    /\ posted[1].points_encoded
    /\ state.routingVehicle = getInitialState.routingVehicle

\* The double x is within 1e-5 of the decimal num / den.
Near(x, num, den) ==
    LET k == Max(0 - x.e, 0)
        a == BigMulSmall(BigShiftLeft(x.m, Max(x.e, 0)), den)
        b == BigShiftLeft(BigOfInt(Abs(num)), k)
        diff == IF BigCmp(a, b) >= 0 THEN BigSub(a, b) ELSE BigSub(b, a)
    IN  /\ x.m # <<>> => x.neg = (num < 0)
        /\ BigCmp(BigMulSmall(diff, 100000), BigShiftLeft(BigOfInt(den), k)) <= 0

\* The running sums C13 gives for the three points of the reference
\* geometry, and the decimals it gives for their coordinates, as num / den.
ReferenceSums ==
    << [lat |-> 3850000, lng |-> -12020000],
       [lat |-> 4070000, lng |-> -12095000],
       [lat |-> 4325200, lng |-> -12645300] >>

ReferenceDecimals ==
    << [lng |-> <<-1202, 10>>, lat |-> <<385, 10>>],
       [lng |-> <<-12095, 100>>, lat |-> <<407, 10>>],
       [lng |-> <<-126453, 1000>>, lat |-> <<43252, 1000>>] >>

\* decodePath, not 3D, is at a loop test or at its return with the
\* reference geometry.
DecodingReference ==
    /\ decoder.pc \in {"while", "return"}
    /\ decoder.encoded = ReferencePath
    /\ ~decoder.is3D

\* The sums of the reference geometry are those of C13, point by point, and
\* a string that encodes a latitude delta and a longitude delta as zig-zag
\* varints decodes to the one point of these deltas, longitude first.
DecodesVarints ==
    /\ DecodingReference =>
          /\ Len(decoder.array) <= 3
          /\ decoder.pc = "return" => Len(decoder.array) = 3
          /\ Len(decoder.array) > 0 =>
                /\ decoder.lat = ReferenceSums[Len(decoder.array)].lat
                /\ decoder.lng = ReferenceSums[Len(decoder.array)].lng
          /\ \A k \in 1..Len(decoder.array) :
                decoder.array[k] = << Times(ReferenceSums[k].lng, Literal(1, 100000)),
                                      Times(ReferenceSums[k].lat, Literal(1, 100000)) >>
    /\ (decoder.pc = "return" /\ ~decoder.is3D) =>
          \A a, b \in Deltas :
             decoder.encoded = encodeSigned(a) \o encodeSigned(b) =>
                /\ decoder.lat = a
                /\ decoder.lng = b
                /\ decoder.array = << << Times(b, Literal(1, 100000)),
                                         Times(a, Literal(1, 100000)) >> >>

\* C13 as stated: decodePath, not 3D, decodes the reference geometry to
\* three points of the running sums (3850000, -12020000), (4070000,
\* -12095000), (4325200, -12645300), emitted as exactly [[-120.2, 38.5],
\* [-120.95, 40.7], [-126.453, 43.252]]; each group of characters is a
\* zig-zag varint added to the running lat, then lng.
ReferencePathDecodesExactly ==
    /\ DecodesVarints
    /\ DecodingReference =>
          \A k \in 1..Len(decoder.array) :
             /\ Value(decoder.array[k][1]) =
                   Decimal(ReferenceDecimals[k].lng[1], ReferenceDecimals[k].lng[2])
             /\ Value(decoder.array[k][2]) =
                   Decimal(ReferenceDecimals[k].lat[1], ReferenceDecimals[k].lat[2])

\* C13 amended: decodePath, not 3D, decodes the reference geometry to three
\* points of the running sums (3850000, -12020000), (4070000, -12095000),
\* (4325200, -12645300), emitted as the doubles lng * 1e-5 and lat * 1e-5,
\* each within 1e-5 of [[-120.2, 38.5], [-120.95, 40.7], [-126.453,
\* 43.252]]; each group of characters is a zig-zag varint added to the
\* running lat, then lng.
ReferencePathDecodes ==
    /\ DecodesVarints
    /\ DecodingReference =>
          \A k \in 1..Len(decoder.array) :
             /\ Near(Value(decoder.array[k][1]),
                     ReferenceDecimals[k].lng[1], ReferenceDecimals[k].lng[2])
             /\ Near(Value(decoder.array[k][2]),
                     ReferenceDecimals[k].lat[1], ReferenceDecimals[k].lat[2])

\* C13 witness: decodePath returns the three points of the reference
\* geometry.
ReferencePathDecoded ==
    /\ decoder.pc = "return"
    /\ decoder.encoded = ReferencePath
    /\ ~decoder.is3D
    /\ Len(decoder.array) = 3
    /\ decoder.lat = 4325200
    /\ decoder.lng = -12645300

\* C14: in the decoded path every instruction keeps its interval, and one
\* with interval [s, e], 0 <= s <= e < n over the n points of the path, has
\* as points the e - s + 1 points of the path at the indices s to e; a path
\* without instructions has none after decoding.
InstructionsHaveTheirPoints ==
    path # NoPath =>
       IF "instructions" \in DOMAIN rawPath
       THEN /\ Len(path.instructions) = Len(rawPath.instructions)
            /\ \A k \in 1..Len(rawPath.instructions) :
                  LET s == rawPath.instructions[k].interval[1]
                      e == rawPath.instructions[k].interval[2]
                  IN  /\ path.instructions[k].interval = <<s, e>>
                      /\ (0 <= s /\ s <= e /\ e < Len(path.points.coordinates)) =>
                            /\ Len(path.instructions[k].points) = e - s + 1
                            /\ \A j \in 1..(e - s + 1) :
                                  path.instructions[k].points[j] =
                                     path.points.coordinates[s + j]
       ELSE path.instructions = undefined

\* C14 witness: an encoded path of five different points was decoded and
\* its instruction of interval [0, 2] has the first three of them.
ThreePointsOfFive ==
    /\ path # NoPath
    /\ rawPath.points_encoded
    /\ Len(path.points.coordinates) = 5
    /\ path.points.coordinates[1] # path.points.coordinates[3]
    /\ Len(path.instructions) = 1
    /\ path.instructions[1].interval = <<0, 2>>
    /\ path.instructions[1].points = SubSeq(decoder.array, 1, 3)

\* C15: a geometry whose last varint is cut off, so that the read index
\* runs past the end of the string, fails to decode: decodePath returns no
\* coordinate list, and no RouteReceived is dispatched for the response.
CutOffGeometryFails ==
    (rawPath # NoPath /\ rawPath.points_encoded /\ decoder.index > decoder.len) =>
       /\ decoder.pc # "return"
       /\ path = NoPath
       /\ received = <<>>
       /\ last # "RouteReceived"

\* C20: decodePath terminates on every string: each character read moves
\* the index on by one and nothing moves it back, a pass of a do-while that
\* reads at or past the end of the string is the last of its loop, the
\* return statement is reached, and when not 3D the points are at most half
\* the length of the string, rounded up.
DecodePathTerminates ==
    /\ [][/\ decoder.pc \in {"lat", "lng", "ele"} => decoder'.index = decoder.index + 1
          /\ decoder'.index >= decoder.index
          /\ (decoder.pc \in {"lat", "lng", "ele"} /\ decoder.index >= decoder.len)
                => decoder'.pc # decoder.pc]_vars
    /\ [](~decoder.is3D => 2 * Len(decoder.array) <= decoder.len + 1)
    /\ <>(decoder.pc = "return")

\* C20 witness: decodePath returned after reading past the end of a string
\* of three characters, with two points.
ReturnedPastTheEnd ==
    /\ decoder.pc = "return"
    /\ ~decoder.is3D
    /\ decoder.len = 3
    /\ decoder.index > decoder.len
    /\ Len(decoder.array) = 2

\* The waypoints of new are those of old with the one of the id of point
\* replaced by point; nextId and the routing vehicle are those of old.
Replaced(old, new, point) ==
    /\ Len(new.queryPoints) = Len(old.queryPoints)
    /\ \A i \in 1..Len(old.queryPoints) :
          new.queryPoints[i] = IF old.queryPoints[i].id = point.id THEN point
                               ELSE old.queryPoints[i]
    /\ new.nextId = old.nextId
    /\ new.routingVehicle = old.routingVehicle

\* C16: SetPoint(point) replaces the waypoint of the id of point by point,
\* where it stands, and leaves the other waypoints, their number and order,
\* nextId and the routing vehicle as they are; no waypoint changes when none
\* has the id.  InvalidatePoint(point) does the same with isInitialized
\* false.
SetPointReplacesById ==
    [][/\ \A p \in EditedPoints(ShownPoints(state) \cup StalePoints, Clicked) :
             Dispatch(SetPoint(p)) => Replaced(state, state', p)
       /\ \A p \in ShownPoints(state) \cup StalePoints :
             Dispatch(InvalidatePoint(p)) =>
                Replaced(state, state', [p EXCEPT !.isInitialized = FALSE])]_vars

\* C17: in every state reached by the seven store actions, SetPoint and
\* InvalidatePoint with any point record, the waypoint at index 0 is the
\* start, the last of two or more is the end, every waypoint in between is
\* a via point, and each waypoint has the marker color of its role.
RoleAndColorInvariant ==
    LET points == state.queryPoints
        n == Len(points)
    IN  /\ n > 0 => points[1].type = "From"
        /\ n > 1 => points[n].type = "To"
        /\ \A i \in 2..(n - 1) : points[i].type = "Via"
        /\ \A i \in 1..n : points[i].color = getMarkerColor(RoleAt(i, n))

\* The waypoints of new are those of old with one more at the 0-based
\* position atIndex: it has the id that was next, the coordinate, the flag
\* and the text "lng, lat" or no text; the others keep their order, ids,
\* coordinates, texts and flags, and the routing vehicle is that of old.
Inserted(old, new, atIndex, coordinate, isInitialized) ==
    /\ Len(new.queryPoints) = Len(old.queryPoints) + 1
    /\ new.queryPoints[atIndex + 1].id = old.nextId
    /\ new.queryPoints[atIndex + 1].coordinate = coordinate
    /\ new.queryPoints[atIndex + 1].isInitialized = isInitialized
    /\ new.queryPoints[atIndex + 1].queryText =
          IF isInitialized
          THEN NumToString(coordinate.lng) \o ", " \o NumToString(coordinate.lat)
          ELSE ""
    /\ \A i \in 1..Len(old.queryPoints) :
          LET before == old.queryPoints[i]
              after == new.queryPoints[IF i <= atIndex THEN i ELSE i + 1]
          IN  /\ after.id = before.id
              /\ after.coordinate = before.coordinate
              /\ after.queryText = before.queryText
              /\ after.isInitialized = before.isInitialized
    /\ new.routingVehicle = old.routingVehicle

\* C18: AddPoint(atIndex, coordinate, isInitialized) with atIndex from 0 to
\* the number of waypoints puts a new waypoint with the next id, the
\* coordinate, the flag and the text "lng, lat" (or none) at atIndex and
\* keeps the other waypoints and the selected profile.
AddPointInserts ==
    [][\A atIndex \in 0..Len(state.queryPoints), c \in Coords, b \in BOOLEAN :
          Dispatch(AddPoint(atIndex, c, b)) => Inserted(state, state', atIndex, c, b)]_vars

\* C19: after any sequence of actions, also after InfoReceived with no
\* vehicles, the selected profile is a profile with a key, and no dispatch
\* fails reading the key.
SelectedProfileHasKey ==
    /\ "key" \in DOMAIN state.routingVehicle
    /\ error # "TypeError"
====
